---- MODULE Spec2Model ----
(***************************************************************************)
(* Model of fluxforge's chunk scheduler: processChunks (index.ts) driving  *)
(* one per-chunk task per source through executeWithRetry under a          *)
(* TaskController (task-executor.ts).                                      *)
(*                                                                         *)
(* JavaScript runs to completion between awaits, so every action below is  *)
(* one synchronous stretch of code: from the resumption of an await to     *)
(* the next await.  A promise that has settled and the continuation that   *)
(* awaits it are distinct steps (the continuation is a queued microtask),  *)
(* so other microtasks may run in between.                                 *)
(***************************************************************************)
EXTENDS Integers, Sequences, FiniteSets, TLC

\* ---------------------------------------------------------------- bounds
MaxN == 2
MaxFailures == 2
MaxGen == 1
MaxRetries == 7
MaxFileSize == 5
MaxChunkSize == 2
MaxHardware == 2
MaxReadFailures == 1

\* ------------------------------------------------------- program constants
RetryStepMs == 1000
RetryCapMs == 5000
DefaultChunkSize == 1048576
DefaultThreads == 4

Cancelled == "Task cancelled"
SourceFailed == "source failed"

VARIABLES
  n,              \* chunkPromises.length
  conc,           \* options.concurrency
  pc,             \* position of each per-chunk task (processChunk + executeWithRetry)
  retry,          \* executeWithRetry's local `retry` of each task
  delayMs,        \* the `delay` each task last passed to controller.delay
  sig,            \* generation of the AbortSignal of the running attempt (0 when none runs)
  err,            \* rejection reason of each per-chunk task
  paused,         \* TaskController.paused
  cancelled,      \* TaskController.cancelled
  pauseResolvers, \* TaskController.pauseResolvers (tasks whose resolver is queued)
  timers,         \* TaskController.timers (entries <<task, retry number>>)
  gen,            \* which AbortController is TaskController.abortController
  fired,          \* the AbortControllers that have been aborted
  executing,      \* the Set `executing`
  next,           \* position of the for loop over chunkPromises (1-based)
  mainPc,         \* position of mainPromise
  awaited,        \* snapshot handed to Promise.race / Promise.all
  wake,           \* settled result of that race / all, continuation not yet run
  outcome,        \* state of controller.promise
  completed,      \* the counter `completed`
  progress,       \* the onProgress calls so far, as <<completed, total>>
  incs,           \* how many times each task ran `completed++`
  succ,           \* how many processor invocations of each task returned
  fuel,           \* failures the environment may still inject
  cancelInFlight, \* cancel() was called with the outcome pending and a task in flight
  chunkOf,        \* the Chunk each source yields when it resolves
  srcState,       \* state of each chunk promise handed to collectChunks / calculateFileHash
  order,          \* the sources in the order in which they resolved
  collected,      \* the promise collectChunks returns
  appended,       \* the strings given to hasher.append, in call order
  fileHash,       \* the promise calculateFileHash returns
  fileSize,       \* file.size
  chunkSize,      \* chunkFile's chunkSize, after the default
  hardwareConcurrency, \* navigator.hardwareConcurrency (0: absent)
  workerI,        \* the loop variable i of each worker's onmessage
  inbox,          \* messages posted by the workers, not yet handled
  resolvers,      \* the keys of the Map `resolvers`
  promises,       \* the array chunkFile returns: each promise's state and value
  resolveCalls,   \* how many times each position's resolve was called
  readFailures,   \* blob.arrayBuffer() rejections so far
  terminated,     \* the workers have been terminated
  handlerThrew    \* a main-thread onmessage handler threw

schedVars == <<n, conc, pc, retry, delayMs, sig, err, paused, cancelled, pauseResolvers,
               timers, gen, fired, executing, next, mainPc, awaited, wake, outcome,
               completed, progress, incs, succ, fuel, cancelInFlight>>

aggVars == <<chunkOf, srcState, order, collected, appended, fileHash>>

chunkVars == <<fileSize, chunkSize, hardwareConcurrency, workerI, inbox, resolvers,
               promises, resolveCalls, readFailures, terminated, handlerThrew>>

vars == <<schedVars, aggVars, chunkVars>>

Tasks == 1..n

\* the states in which a per-chunk task's promise has not settled
Unsettled == {"source", "loop", "waitResume", "ready", "running", "delay"}
InFlight == {t \in Tasks : pc[t] \in Unsettled}
Admitted == {t \in Tasks : pc[t] # "idle"}

Min(a, b) == IF a < b THEN a ELSE b

\* ------------------------------------------------------- TaskController
\* a checkCancelled() that never throws
CheckCancelledNever(c) == FALSE

\* checkCancelled(): TRUE when it throws Error('Task cancelled')
CheckCancelled(c) == c

\* waitIfPaused(): TRUE when it returns without queueing a resolver
WaitIfPausedReturns(p) == ~p

\* the entry delay() pushes for task t: {timer, resolve} of its current delay
TimerEntry(t) == <<t, retry[t]>>

\* clearTimers(): every registered entry is resolved; resolving the entry of a
\* delay that has already expired does nothing
ClearTimersPc(p, tm) ==
  [t \in Tasks |-> IF p[t] = "delay" /\ TimerEntry(t) \in tm THEN "loop" ELSE p[t]]

\* pauseResolvers.splice(0).forEach(resolve => resolve())
ReleasePc(p, rs) ==
  [t \in Tasks |-> IF t \in rs /\ p[t] = "waitResume" THEN "ready" ELSE p[t]]

\* abortController.abort()
Abort(f, g) == f \cup {g}

\* ------------------------------------------------------- executeWithRetry
\* Math.min(1000 * ++retry, 5000)
RetryDelayPreIncrement(k) == Min(RetryStepMs * (k + 1), RetryCapMs)

\* Math.min(1000 * retry++, 5000)
RetryDelay(k) == Min(RetryStepMs * k, RetryCapMs)

\* --------------------------------------- collectChunks / calculateFileHash
\* the per-chunk hash strings the sources may carry (strings as sequences of
\* characters)
HashVals == {<<1>>, <<2>>, <<1, 2>>}
DigestModulus == 97

\* a Promise.all whose result array is filled in the order of resolution
PromiseAllInResolutionOrder(values, ord) == [k \in 1..Len(ord) |-> values[ord[k]]]

\* Promise.all(chunkPromises): the values, at the positions of their promises
PromiseAll(values, ord) == [i \in DOMAIN values |-> values[i]]

\* chunks.forEach visiting the array from its end
FeedHashesReversed(chunks) == [i \in 1..Len(chunks) |-> chunks[Len(chunks) + 1 - i].hash]

\* chunks.forEach(chunk => hasher.append(chunk.hash)): the appended strings
FeedHashes(chunks) == [i \in 1..Len(chunks) |-> chunks[i].hash]

\* SparkMD5.append: the hasher's input is the concatenation of the strings
RECURSIVE Concat(_)
Concat(ss) == IF ss = <<>> THEN <<>> ELSE Head(ss) \o Concat(Tail(ss))

\* SparkMD5.end(): a digest of the whole input, sensitive to its order
RECURSIVE Digest(_)
Digest(str) ==
  IF str = <<>> THEN 7
  ELSE (31 * Digest(SubSeq(str, 1, Len(str) - 1)) + str[Len(str)]) % DigestModulus

\* ------------------------------------------------------- processChunks
\* executing.size > concurrency
AtLimitOffByOne(size, c) == size > c

\* executing.size >= concurrency
AtLimit(size, c) == size >= c

\* the timer callbacks are macrotasks: none runs while a continuation is queued
MicrotasksDrained ==
  /\ wake = "none"
  /\ \A t \in Tasks : pc[t] \notin {"loop", "ready"}

\* no user code and no task continuation runs inside the synchronous for loop
Yielded == mainPc # "loop"

\* a settlement seen by a loop that awaits Promise.all(executing) where the
\* code awaits Promise.race(executing)
SettleWaitsForAll(t, e) ==
  /\ pc' = [pc EXCEPT ![t] = IF e = "none" THEN "fulfilled" ELSE "rejected"]
  /\ err' = [err EXCEPT ![t] = e]
  /\ executing' = executing \ {t}
  /\ IF wake = "none" /\ t \in awaited
       THEN IF e # "none"
              THEN /\ wake' = e
                   /\ awaited' = {}
              ELSE /\ awaited' = awaited \ {t}
                   /\ wake' = IF awaited \ {t} = {} THEN "ok" ELSE "none"
       ELSE UNCHANGED <<wake, awaited>>

\* processChunk(...).finally(() => executing.delete(promise)) settles with e
\* ("none": fulfilled) and the pending Promise.race / Promise.all sees it
Settle(t, e) ==
  /\ pc' = [pc EXCEPT ![t] = IF e = "none" THEN "fulfilled" ELSE "rejected"]
  /\ err' = [err EXCEPT ![t] = e]
  /\ executing' = executing \ {t}
  /\ IF wake = "none" /\ t \in awaited
       THEN IF mainPc = "race"
              THEN /\ wake' = IF e = "none" THEN "ok" ELSE e
                   /\ awaited' = {}
              ELSE IF e # "none"
                     THEN /\ wake' = e
                          /\ awaited' = {}
                     ELSE /\ awaited' = awaited \ {t}
                          /\ wake' = IF awaited \ {t} = {} THEN "ok" ELSE "none"
       ELSE UNCHANGED <<wake, awaited>>

\* --------------------------------------------------- chunkFile / worker
\* Math.ceil(a / b)
Ceil(a, b) == (a + b - 1) \div b

\* const { chunkSize = Math.min(1024 * 1024, file.size) } = options
ChunkSizeOf(size, given, opt) == IF given THEN opt ELSE Min(DefaultChunkSize, size)

\* navigator.hardwareConcurrency || 4
HardwareThreads == IF hardwareConcurrency = 0 THEN DefaultThreads ELSE hardwareConcurrency

TotalChunks == Ceil(fileSize, chunkSize)
ThreadCount == Min(HardwareThreads, Ceil(fileSize, chunkSize))

\* Math.floor(totalChunks / threadCount)
ChunksPerThreadFloor == TotalChunks \div ThreadCount

\* Math.ceil(totalChunks / threadCount)
ChunksPerThread == Ceil(TotalChunks, ThreadCount)

\* the workers Array.from({ length: Math.min(threadCount, totalChunks) }) makes
Workers == 0..(Min(ThreadCount, TotalChunks) - 1)
Indices == 0..(TotalChunks - 1)

\* the start and end createWorker passes to worker w
WorkerStart(w) == w * ChunksPerThread
WorkerEnd(w) == Min((w + 1) * ChunksPerThread, TotalChunks)

\* worker.ts processChunk(file, index, chunkSize), without blob and hash
WorkerChunk(index) ==
  [index |-> index,
   start |-> index * chunkSize,
   end |-> Min(index * chunkSize + chunkSize, fileSize)]

\* chunkFile(file, options) has returned: promises made, workers started
InitChunkFile(size, given, opt, hw) ==
  /\ fileSize = size
  /\ chunkSize = ChunkSizeOf(size, given, opt)
  /\ hardwareConcurrency = hw
  /\ workerI = [w \in Workers |-> WorkerStart(w)]
  /\ inbox = {}
  /\ resolvers = Indices
  /\ promises = [i \in Indices |-> [state |-> "pending"]]
  /\ resolveCalls = [i \in Indices |-> 0]
  /\ readFailures = 0
  /\ terminated = FALSE
  /\ handlerThrew = FALSE

\* the state processChunks builds before its loop starts, for given sources
InitRun ==
  /\ pc = [t \in Tasks |-> "idle"]
  /\ retry = [t \in Tasks |-> 0]
  /\ delayMs = [t \in Tasks |-> 0]
  /\ sig = [t \in Tasks |-> 0]
  /\ err = [t \in Tasks |-> "none"]
  /\ paused = FALSE
  /\ cancelled = FALSE
  /\ pauseResolvers = {}
  /\ timers = {}
  /\ gen = 0
  /\ fired = {}
  /\ executing = {}
  /\ next = 1
  /\ mainPc = "loop"
  /\ awaited = {}
  /\ wake = "none"
  /\ outcome = "pending"
  /\ completed = 0
  /\ progress = <<>>
  /\ incs = [t \in Tasks |-> 0]
  /\ succ = [t \in Tasks |-> 0]
  /\ cancelInFlight = FALSE

\* collectChunks / calculateFileHash have been called on the sources, whose
\* chunks carry the per-chunk hashes h
InitAggregate(h) ==
  /\ chunkOf = [i \in Tasks |-> [index |-> i - 1, hash |-> h[i]]]
  /\ srcState = [i \in Tasks |-> "pending"]
  /\ order = <<>>
  /\ collected = [state |-> "pending", value |-> <<>>]
  /\ appended = <<>>
  /\ fileHash = [state |-> "pending", value |-> <<>>]

Init ==
  /\ n \in 1..MaxN
  /\ conc \in 1..(n + 1)
  /\ fuel = MaxFailures
  /\ InitRun
  /\ InitAggregate([i \in Tasks |-> <<>>])
  /\ InitChunkFile(1, FALSE, 1, 1)

\* a run over a single chunk whose attempts may fail MaxRetries times
InitRetry ==
  /\ n = 1
  /\ conc \in 1..2
  /\ fuel = MaxRetries
  /\ InitRun
  /\ InitAggregate([i \in Tasks |-> <<>>])
  /\ InitChunkFile(1, FALSE, 1, 1)

\* the sources alone, consumed by collectChunks and calculateFileHash
InitAgg ==
  /\ n \in 1..MaxN
  /\ conc = 1
  /\ fuel = 0
  /\ InitRun
  /\ \E h \in [Tasks -> HashVals] : InitAggregate(h)
  /\ InitChunkFile(1, FALSE, 1, 1)

\* ---- mainPromise ------------------------------------------------------
\* a finally that first waits for every in-flight task to settle
FinishAfterAllSettled(o) ==
  /\ \A t \in Tasks : pc[t] \notin Unsettled
  /\ outcome' = o
  /\ mainPc' = "done"
  /\ paused' = FALSE
  /\ pauseResolvers' = {}
  /\ pc' = ClearTimersPc(pc, timers)
  /\ timers' = {}
  /\ executing' = {}
  /\ wake' = "none"
  /\ awaited' = {}
  /\ UNCHANGED <<n, conc, retry, delayMs, sig, err, cancelled, gen, fired, next, completed,
                 progress, incs, succ, fuel, cancelInFlight>>

\* finally { controller.cleanup(); executing.clear() } and the outcome o
Finish(o) ==
  /\ outcome' = o
  /\ mainPc' = "done"
  /\ paused' = FALSE
  /\ pauseResolvers' = {}
  /\ pc' = ClearTimersPc(pc, timers)
  /\ timers' = {}
  /\ executing' = {}
  /\ wake' = "none"
  /\ awaited' = {}
  /\ UNCHANGED <<n, conc, retry, delayMs, sig, err, cancelled, gen, fired, next, completed,
                 progress, incs, succ, fuel, cancelInFlight>>

\* a for loop that walks chunkPromises from its last element to its first
AdmitReversed ==
  /\ mainPc = "loop"
  /\ next <= n
  /\ IF CheckCancelled(cancelled)
       THEN Finish(Cancelled)
       ELSE /\ pc' = [pc EXCEPT ![n + 1 - next] = "source"]
            /\ executing' = executing \cup {n + 1 - next}
            /\ next' = next + 1
            /\ IF AtLimit(Cardinality(executing \cup {n + 1 - next}), conc)
                 THEN /\ mainPc' = "race"
                      /\ awaited' = executing \cup {n + 1 - next}
                 ELSE UNCHANGED <<mainPc, awaited>>
            /\ UNCHANGED <<n, conc, retry, delayMs, sig, err, paused, cancelled, pauseResolvers,
                           timers, gen, fired, wake, outcome, completed, progress,
                           incs, succ, fuel, cancelInFlight>>

\* one iteration of the for loop: checkCancelled, processChunk(chunkPromise),
\* executing.add, and the await Promise.race when the limit is reached
Admit ==
  /\ mainPc = "loop"
  /\ next <= n
  /\ IF CheckCancelled(cancelled)
       THEN Finish(Cancelled)
       ELSE /\ pc' = [pc EXCEPT ![next] = "source"]
            /\ executing' = executing \cup {next}
            /\ next' = next + 1
            /\ IF AtLimit(Cardinality(executing \cup {next}), conc)
                 THEN /\ mainPc' = "race"
                      /\ awaited' = executing \cup {next}
                 ELSE UNCHANGED <<mainPc, awaited>>
            /\ UNCHANGED <<n, conc, retry, delayMs, sig, err, paused, cancelled, pauseResolvers,
                           timers, gen, fired, wake, outcome, completed, progress,
                           incs, succ, fuel, cancelInFlight>>

\* the loop is over: await Promise.all(executing)
LoopEnd ==
  /\ mainPc = "loop"
  /\ next > n
  /\ mainPc' = "all"
  /\ awaited' = executing
  /\ wake' = IF executing = {} THEN "ok" ELSE "none"
  /\ UNCHANGED <<n, conc, pc, retry, delayMs, sig, err, paused, cancelled, pauseResolvers, timers,
                 gen, fired, executing, next, outcome, completed, progress, incs, succ,
                 fuel, cancelInFlight>>

\* the continuation of await Promise.race(executing): a rejection is thrown,
\* otherwise controller.checkCancelled() and back to the loop
RaceResume ==
  /\ mainPc = "race"
  /\ wake # "none"
  /\ IF wake # "ok"
       THEN Finish(wake)
       ELSE IF CheckCancelled(cancelled)
              THEN Finish(Cancelled)
              ELSE /\ mainPc' = "loop"
                   /\ wake' = "none"
                   /\ awaited' = {}
                   /\ UNCHANGED <<n, conc, pc, retry, delayMs, sig, err, paused, cancelled,
                                  pauseResolvers, timers, gen, fired, executing, next,
                                  outcome, completed, progress, incs, succ, fuel,
                                  cancelInFlight>>

\* the continuation of await Promise.all(executing)
AllResume ==
  /\ mainPc = "all"
  /\ wake # "none"
  /\ Finish(IF wake = "ok" THEN "resolved" ELSE wake)

\* ---- per-chunk task ---------------------------------------------------
\* const chunk = await chunkPromise: the source resolves
SourceResolve(t) ==
  /\ Yielded
  /\ pc[t] = "source"
  /\ pc' = [pc EXCEPT ![t] = "loop"]
  /\ UNCHANGED <<n, conc, retry, delayMs, sig, err, paused, cancelled, pauseResolvers, timers,
                 gen, fired, executing, next, mainPc, awaited, wake, outcome, completed,
                 progress, incs, succ, fuel, cancelInFlight>>

\* const chunk = await chunkPromise: the source rejects, processChunk rejects
SourceReject(t) ==
  /\ Yielded
  /\ pc[t] = "source"
  /\ Settle(t, SourceFailed)
  /\ UNCHANGED <<n, conc, retry, delayMs, sig, paused, cancelled, pauseResolvers, timers, gen,
                 fired, next, mainPc, outcome, completed, progress, incs, succ, fuel,
                 cancelInFlight>>

\* top of the while loop: checkCancelled(), then waitIfPaused()
LoopTop(t) ==
  /\ Yielded
  /\ pc[t] = "loop"
  /\ IF CheckCancelled(cancelled)
       THEN /\ Settle(t, Cancelled)
            /\ UNCHANGED pauseResolvers
       ELSE /\ IF WaitIfPausedReturns(paused)
                 THEN /\ pc' = [pc EXCEPT ![t] = "ready"]
                      /\ UNCHANGED pauseResolvers
                 ELSE /\ pc' = [pc EXCEPT ![t] = "waitResume"]
                      /\ pauseResolvers' = pauseResolvers \cup {t}
            /\ UNCHANGED <<err, executing, wake, awaited>>
  /\ UNCHANGED <<n, conc, retry, delayMs, sig, paused, cancelled, timers, gen, fired, next,
                 mainPc, outcome, completed, progress, incs, succ, fuel, cancelInFlight>>

\* after await waitIfPaused(): fn() is called without the second checkCancelled()
StartAttemptUnchecked(t) ==
  /\ Yielded
  /\ pc[t] = "ready"
  /\ pc' = [pc EXCEPT ![t] = "running"]
  /\ sig' = [sig EXCEPT ![t] = gen]
  /\ UNCHANGED <<n, conc, retry, delayMs, err, paused, cancelled, pauseResolvers, timers, gen,
                 fired, executing, next, mainPc, awaited, wake, outcome, completed,
                 progress, incs, succ, fuel, cancelInFlight>>

\* after await waitIfPaused(): checkCancelled(), then fn() calls
\* processor(chunk, controller.signal)
StartAttempt(t) ==
  /\ Yielded
  /\ pc[t] = "ready"
  /\ IF CheckCancelled(cancelled)
       THEN /\ Settle(t, Cancelled)
            /\ UNCHANGED sig
       ELSE /\ pc' = [pc EXCEPT ![t] = "running"]
            /\ sig' = [sig EXCEPT ![t] = gen]
            /\ UNCHANGED <<err, executing, wake, awaited>>
  /\ UNCHANGED <<n, conc, retry, delayMs, paused, cancelled, pauseResolvers, timers, gen, fired,
                 next, mainPc, outcome, completed, progress, incs, succ, fuel,
                 cancelInFlight>>

\* catch { const delay = Math.min(1000 * retry++, 5000); await controller.delay(delay) }
Backoff(t) ==
  /\ pc' = [pc EXCEPT ![t] = "delay"]
  /\ delayMs' = [delayMs EXCEPT ![t] = RetryDelay(retry[t])]
  /\ retry' = [retry EXCEPT ![t] = retry[t] + 1]
  /\ timers' = timers \cup {<<t, retry[t] + 1>>}
  /\ sig' = [sig EXCEPT ![t] = 0]
  /\ fuel' = fuel - 1

\* the processor's promise rejects and the rejection leaves executeWithRetry
ProcFailPropagates(t) ==
  /\ Yielded
  /\ pc[t] = "running"
  /\ fuel > 0
  /\ fuel' = fuel - 1
  /\ sig' = [sig EXCEPT ![t] = 0]
  /\ Settle(t, "processor failed")
  /\ UNCHANGED <<n, conc, retry, delayMs, paused, cancelled, pauseResolvers, timers, gen, fired,
                 next, mainPc, outcome, completed, progress, incs, succ, cancelInFlight>>

\* the processor's promise rejects (or the processor throws)
ProcFail(t) ==
  /\ Yielded
  /\ pc[t] = "running"
  /\ fuel > 0
  /\ Backoff(t)
  /\ UNCHANGED <<n, conc, err, paused, cancelled, pauseResolvers, gen, fired, executing,
                 next, mainPc, awaited, wake, outcome, completed, progress, incs, succ,
                 cancelInFlight>>

\* completed++; onProgress?.(completed, chunkPromises.length)
Count(t) ==
  /\ completed' = completed + 1
  /\ incs' = [incs EXCEPT ![t] = incs[t] + 1]
  /\ progress' = Append(progress, <<completed + 1, n>>)

\* the processor returns, the counter is bumped, onProgress returns and
\* executeWithRetry, processChunk and the task's promise fulfil
ProcSucceed(t) ==
  /\ Yielded
  /\ pc[t] = "running"
  /\ succ' = [succ EXCEPT ![t] = succ[t] + 1]
  /\ Count(t)
  /\ sig' = [sig EXCEPT ![t] = 0]
  /\ Settle(t, "none")
  /\ UNCHANGED <<n, conc, retry, delayMs, paused, cancelled, pauseResolvers, timers, gen, fired,
                 next, mainPc, outcome, fuel, cancelInFlight>>

\* the processor returns, the counter is bumped, onProgress throws: the throw
\* is inside fn, so executeWithRetry's catch takes it
ProgressThrows(t) ==
  /\ Yielded
  /\ pc[t] = "running"
  /\ fuel > 0
  /\ succ' = [succ EXCEPT ![t] = succ[t] + 1]
  /\ Count(t)
  /\ Backoff(t)
  /\ UNCHANGED <<n, conc, err, paused, cancelled, pauseResolvers, gen, fired, executing,
                 next, mainPc, awaited, wake, outcome, cancelInFlight>>

\* setTimeout(resolve, ms) fires; the entry stays in `timers`
TimerExpire(t) ==
  /\ Yielded
  /\ MicrotasksDrained
  /\ pc[t] = "delay"
  /\ pc' = [pc EXCEPT ![t] = "loop"]
  /\ UNCHANGED <<n, conc, retry, delayMs, sig, err, paused, cancelled, pauseResolvers, timers,
                 gen, fired, executing, next, mainPc, awaited, wake, outcome, completed,
                 progress, incs, succ, fuel, cancelInFlight>>

\* ---- ProcessController -------------------------------------------------
Pause ==
  /\ Yielded
  /\ gen < MaxGen
  /\ paused' = TRUE
  /\ fired' = Abort(fired, gen)
  /\ pc' = ClearTimersPc(pc, timers)
  /\ timers' = {}
  /\ UNCHANGED <<n, conc, retry, delayMs, sig, err, cancelled, pauseResolvers, gen, executing,
                 next, mainPc, awaited, wake, outcome, completed, progress, incs, succ,
                 fuel, cancelInFlight>>

\* a resume() without its `if (!this.paused) return`
ResumeUnguarded ==
  /\ Yielded
  /\ gen < MaxGen + 1
  /\ paused' = FALSE
  /\ gen' = gen + 1
  /\ pc' = ReleasePc(ClearTimersPc(pc, timers), pauseResolvers)
  /\ timers' = {}
  /\ pauseResolvers' = {}
  /\ UNCHANGED <<n, conc, retry, delayMs, sig, err, cancelled, fired, executing, next, mainPc,
                 awaited, wake, outcome, completed, progress, incs, succ, fuel,
                 cancelInFlight>>

Resume ==
  /\ Yielded
  /\ IF ~paused
       THEN UNCHANGED <<pc, paused, gen, timers, pauseResolvers>>
       ELSE /\ paused' = FALSE
            /\ gen' = gen + 1
            /\ pc' = ReleasePc(ClearTimersPc(pc, timers), pauseResolvers)
            /\ timers' = {}
            /\ pauseResolvers' = {}
  /\ UNCHANGED <<n, conc, retry, delayMs, sig, err, cancelled, fired, executing, next, mainPc,
                 awaited, wake, outcome, completed, progress, incs, succ, fuel,
                 cancelInFlight>>

Cancel ==
  /\ Yielded
  /\ cancelled' = TRUE
  /\ fired' = Abort(fired, gen)
  /\ timers' = {}
  /\ IF paused
       THEN /\ paused' = FALSE
            /\ pc' = ReleasePc(ClearTimersPc(pc, timers), pauseResolvers)
            /\ pauseResolvers' = {}
       ELSE /\ pc' = ClearTimersPc(pc, timers)
            /\ UNCHANGED <<paused, pauseResolvers>>
  /\ cancelInFlight' = (cancelInFlight \/ (outcome = "pending" /\ executing # {}))
  /\ UNCHANGED <<n, conc, retry, delayMs, sig, err, gen, executing, next, mainPc, awaited, wake,
                 outcome, completed, progress, incs, succ, fuel>>

\* ---- collectChunks / calculateFileHash ----------------------------------
\* a chunk promise resolves with its Chunk
AggSourceResolve(i) ==
  /\ srcState[i] = "pending"
  /\ srcState' = [srcState EXCEPT ![i] = "resolved"]
  /\ order' = Append(order, i)
  /\ UNCHANGED <<chunkOf, collected, appended, fileHash>>

\* a chunk promise rejects
AggSourceReject(i) ==
  /\ srcState[i] = "pending"
  /\ srcState' = [srcState EXCEPT ![i] = "rejected"]
  /\ UNCHANGED <<chunkOf, order, collected, appended, fileHash>>

\* return Promise.all(chunkPromises): every source has resolved
CollectFulfil ==
  /\ collected.state = "pending"
  /\ \A i \in Tasks : srcState[i] = "resolved"
  /\ collected' = [state |-> "fulfilled", value |-> PromiseAll(chunkOf, order)]
  /\ UNCHANGED <<chunkOf, srcState, order, appended, fileHash>>

\* return Promise.all(chunkPromises): a source has rejected
CollectReject ==
  /\ collected.state = "pending"
  /\ \E i \in Tasks : srcState[i] = "rejected"
  /\ collected' = [state |-> "rejected", value |-> <<>>]
  /\ UNCHANGED <<chunkOf, srcState, order, appended, fileHash>>

\* const chunks = await Promise.all(chunkPromises); chunks.forEach(chunk =>
\* hasher.append(chunk.hash)); return hasher.end()
HashFulfil ==
  /\ fileHash.state = "pending"
  /\ \A i \in Tasks : srcState[i] = "resolved"
  /\ appended' = FeedHashes(PromiseAll(chunkOf, order))
  /\ fileHash' = [state |-> "fulfilled",
                  value |-> Digest(Concat(FeedHashes(PromiseAll(chunkOf, order))))]
  /\ UNCHANGED <<chunkOf, srcState, order, collected>>

\* await Promise.all(chunkPromises) throws: a source has rejected
HashReject ==
  /\ fileHash.state = "pending"
  /\ \E i \in Tasks : srcState[i] = "rejected"
  /\ fileHash' = [state |-> "rejected", value |-> <<>>]
  /\ UNCHANGED <<chunkOf, srcState, order, collected, appended>>

AggNext ==
  /\ \/ \E i \in Tasks : AggSourceResolve(i)
     \/ \E i \in Tasks : AggSourceReject(i)
     \/ CollectFulfil
     \/ CollectReject
     \/ HashFulfil
     \/ HashReject
  /\ UNCHANGED <<schedVars, chunkVars>>

SchedNext ==
  \/ Admit
  \/ LoopEnd
  \/ RaceResume
  \/ AllResume
  \/ \E t \in Tasks : SourceResolve(t)
  \/ \E t \in Tasks : SourceReject(t)
  \/ \E t \in Tasks : LoopTop(t)
  \/ \E t \in Tasks : StartAttempt(t)
  \/ \E t \in Tasks : ProcFail(t)
  \/ \E t \in Tasks : ProcSucceed(t)
  \/ \E t \in Tasks : ProgressThrows(t)
  \/ \E t \in Tasks : TimerExpire(t)
  \/ Pause
  \/ Resume
  \/ Cancel

Next == SchedNext /\ UNCHANGED <<aggVars, chunkVars>>

Spec == Init /\ [][Next]_vars

AggSpec == InitAgg /\ [][AggNext]_vars

\* ---- chunkFile / worker ------------------------------------------------
\* chunkFile called on a file with an optional chunkSize
InitChunk ==
  /\ n = 1
  /\ conc = 1
  /\ fuel = 0
  /\ InitRun
  /\ InitAggregate([i \in Tasks |-> <<>>])
  /\ \E size \in 1..MaxFileSize, given \in BOOLEAN, hw \in 0..MaxHardware :
       \E opt \in IF given THEN 1..MaxChunkSize ELSE {1} :
         InitChunkFile(size, given, opt, hw)

\* worker w: blob.arrayBuffer() rejects, the catch swallows it, the loop retries
WorkerReadFails(w) ==
  /\ ~terminated
  /\ workerI[w] < WorkerEnd(w)
  /\ readFailures < MaxReadFailures
  /\ readFailures' = readFailures + 1
  /\ UNCHANGED <<fileSize, chunkSize, hardwareConcurrency, workerI, inbox, resolvers,
                 promises, resolveCalls, terminated, handlerThrew>>

\* worker w: processChunk(file, i, chunkSize) returns and the chunk is posted
\* with chunkIndex: i - start
WorkerPost(w) ==
  /\ ~terminated
  /\ workerI[w] < WorkerEnd(w)
  /\ inbox' = inbox \cup {[worker |-> w,
                           chunk |-> WorkerChunk(workerI[w]),
                           chunkIndex |-> workerI[w] - WorkerStart(w)]}
  /\ workerI' = [workerI EXCEPT ![w] = workerI[w] + 1]
  /\ UNCHANGED <<fileSize, chunkSize, hardwareConcurrency, resolvers, promises,
                 resolveCalls, readFailures, terminated, handlerThrew>>

\* createWorker's worker.onmessage: resolvers.get(start + chunkIndex)!
\* .resolve(chunk), then resolvers.delete(index)
OnMessage(m) ==
  /\ m \in inbox
  /\ inbox' = inbox \ {m}
  /\ IF WorkerStart(m.worker) + m.chunkIndex \in resolvers
       THEN /\ resolveCalls' = [resolveCalls EXCEPT
                                  ![WorkerStart(m.worker) + m.chunkIndex] = @ + 1]
            /\ promises' = [promises EXCEPT
                              ![WorkerStart(m.worker) + m.chunkIndex] =
                                 IF @.state = "pending"
                                   THEN [state |-> "fulfilled", value |-> m.chunk]
                                   ELSE @]
            /\ resolvers' = resolvers \ {WorkerStart(m.worker) + m.chunkIndex}
            /\ UNCHANGED handlerThrew
       ELSE /\ handlerThrew' = TRUE
            /\ UNCHANGED <<resolveCalls, promises, resolvers>>
  /\ UNCHANGED <<fileSize, chunkSize, hardwareConcurrency, workerI, readFailures, terminated>>

\* Promise.allSettled(promises).finally(() => workers.forEach(w => w.terminate()))
Terminate ==
  /\ ~terminated
  /\ \A i \in Indices : promises[i].state # "pending"
  /\ terminated' = TRUE
  /\ UNCHANGED <<fileSize, chunkSize, hardwareConcurrency, workerI, inbox, resolvers,
                 promises, resolveCalls, readFailures, handlerThrew>>

ChunkNext ==
  /\ \/ \E w \in Workers : WorkerReadFails(w)
     \/ \E w \in Workers : WorkerPost(w)
     \/ \E m \in inbox : OnMessage(m)
     \/ Terminate
  /\ UNCHANGED <<schedVars, aggVars>>

ChunkSpec == InitChunk /\ [][ChunkNext]_vars

\* a queued continuation of mainPromise runs: the microtask queue is drained
MainMicrotask ==
  /\ Admit \/ LoopEnd \/ RaceResume \/ AllResume
  /\ UNCHANGED <<aggVars, chunkVars>>

\* a queued continuation of task t runs, or its timer fires once the queue is
\* empty
TaskMicrotask(t) ==
  /\ t \in Tasks
  /\ LoopTop(t) \/ StartAttempt(t) \/ TimerExpire(t)
  /\ UNCHANGED <<aggVars, chunkVars>>

\* the event loop runs every queued continuation and every due timer; sources,
\* processor invocations and the caller's pause/resume/cancel owe nothing
\* the runs whose liveness is checked: as Init, with one failure to inject
InitFair ==
  /\ n \in 1..MaxN
  /\ conc \in 1..(n + 1)
  /\ fuel = 1
  /\ InitRun
  /\ InitAggregate([i \in Tasks |-> <<>>])
  /\ InitChunkFile(1, FALSE, 1, 1)

FairSpec ==
  /\ InitFair /\ [][Next]_vars
  /\ WF_vars(MainMicrotask)
  /\ \A t \in 1..MaxN : WF_vars(TaskMicrotask(t))

RetrySpec == InitRetry /\ [][Next]_vars

\* the runs in which the limit is reached with one source left to submit and
\* more than one task in flight
InitRace ==
  /\ n = MaxN + 1
  /\ conc = MaxN
  /\ fuel = 1
  /\ InitRun
  /\ InitAggregate([i \in Tasks |-> <<>>])
  /\ InitChunkFile(1, FALSE, 1, 1)

RaceSpec ==
  /\ InitRace /\ [][Next]_vars
  /\ WF_vars(MainMicrotask)
  /\ \A t \in 1..(MaxN + 1) : WF_vars(TaskMicrotask(t))

\* ================================================================ claims
Running == {t \in Tasks : pc[t] = "running"}
NoSourceFailed == \A t \in Tasks : err[t] # SourceFailed

\* C1: in every reachable state the number of admitted-but-unsettled per-chunk
\* tasks, the size of the in-flight set and the number of running processor
\* invocations are at most the concurrency limit.
C1_InFlightAtMostConcurrency ==
  /\ Cardinality(InFlight) <= conc
  /\ Cardinality(executing) <= conc
  /\ Cardinality(Running) <= conc

\* C1 witness: the limit is below the number of sources, one task has already
\* finished and the limit is filled again by running processor invocations.
C1_Witness ==
  /\ conc < n
  /\ \E t \in Tasks : pc[t] = "fulfilled"
  /\ Cardinality(Running) = conc
  /\ Cardinality(executing) = conc

\* C2 (as claimed): when cancel() was called with the outcome pending and a task
\* in flight, and no source fails, the outcome never resolves successfully.
C2_CancelNeverResolves ==
  (cancelInFlight /\ NoSourceFailed) => outcome # "resolved"

\* C3 (as claimed): when the outcome has resolved successfully, onProgress was
\* called exactly N times, with (1,N), (2,N), ..., (N,N) in that order, and
\* completed = N.
C3_ResolvedMeansNProgressEvents ==
  outcome = "resolved" =>
    /\ completed = n
    /\ progress = [i \in 1..n |-> <<i, n>>]

\* C4 (as claimed): 0 <= completed <= total in every reachable state.
C4_CompletedWithinTotal == 0 <= completed /\ completed <= n

\* C5 (as claimed): the counter is incremented at most once per chunk, and only
\* after a processor attempt of that chunk has returned successfully.
C5_CountedAtMostOncePerChunk ==
  \A t \in Tasks : incs[t] <= 1 /\ incs[t] <= succ[t]

\* C6 (as claimed, its final result): with no cancel() and no failing source, a
\* resolved outcome has completed = N and every chunk counted exactly once.
C6_ResolvedCountsEachChunkOnce ==
  (outcome = "resolved" /\ ~cancelled /\ NoSourceFailed) =>
    /\ completed = n
    /\ \A t \in Tasks : incs[t] = 1
    /\ Len(progress) = n

\* C7 (as claimed): once cancel() has been called the counter never increases
\* and onProgress is never called again.
C7_CounterFrozenAfterCancel ==
  [][cancelled => (completed' = completed /\ progress' = progress)]_vars

\* C8: once cancel() has been called no further source is admitted: the set of
\* sources with a per-chunk task does not change in any step taken with the
\* token cancelled.
C8_NoAdmissionAfterCancel ==
  [][cancelled => (Admitted' = Admitted /\ next' = next)]_vars

\* C8 witness: cancel() came while sources were still unadmitted, an in-flight
\* task then finished successfully, and the scheduler stopped at its checkpoint
\* with the next source never admitted.
C8_Witness ==
  /\ cancelInFlight
  /\ outcome = Cancelled
  /\ next <= n
  /\ pc[next] = "idle"
  /\ \E t \in Tasks : pc[t] = "fulfilled"
  /\ \A t \in Tasks : err[t] = "none"

\* C9 (as claimed): when a chunk source has failed and cancel() was never
\* called, the outcome never resolves successfully.
C9_SourceFailureNeverResolves ==
  ((\E t \in Tasks : err[t] = SourceFailed) /\ ~cancelled) => outcome # "resolved"

C11_DelaySequence == <<0, 1000, 2000, 3000, 4000, 5000, 5000, 5000, 5000, 5000>>

C11_BackoffDelays ==
  [][\A t \in Tasks :
       IF pc[t] = "running" /\ pc'[t] = "delay"
         THEN /\ retry'[t] = retry[t] + 1
              /\ retry[t] < Len(C11_DelaySequence)
              /\ delayMs'[t] = C11_DelaySequence[retry[t] + 1]
         ELSE retry'[t] = retry[t] /\ delayMs'[t] = delayMs[t]]_vars

\* C11 witness: the chunk has failed seven times, its seventh delay is the
\* capped 5000 ms, and a pause()/resume() cycle cut an earlier delay short.
C11_Witness ==
  /\ retry[1] = 7
  /\ delayMs[1] = 5000
  /\ pc[1] = "delay"
  /\ gen >= 1

\* C12: collectChunks fulfils only when no source failed, and then with the
\* chunk of source i at position i, whatever the order of resolution; once a
\* source has failed it can only reject.
C12_CollectInSourceOrder ==
  /\ collected.state = "fulfilled" =>
       /\ Len(collected.value) = n
       /\ \A i \in Tasks : collected.value[i] = chunkOf[i] /\ collected.value[i].index = i - 1
       /\ \A i \in Tasks : srcState[i] = "resolved"
  /\ collected.state = "rejected" => \E i \in Tasks : srcState[i] = "rejected"
  /\ (collected.state = "pending" /\ \E i \in Tasks : srcState[i] = "rejected") =>
       (ENABLED CollectReject /\ ~ENABLED CollectFulfil)

\* C12 witness: the last source resolved first, the chunks differ, and
\* collectChunks has fulfilled.
C12_Witness ==
  /\ n >= 2
  /\ collected.state = "fulfilled"
  /\ order[1] = n
  /\ chunkOf[1].hash # chunkOf[n].hash

\* C13: calculateFileHash appends h0, h1, ..., h(N-1) in source-position
\* order, each once, and returns the digest of their concatenation, whatever
\* the order of resolution.
C13_HashInSourceOrder ==
  fileHash.state = "fulfilled" =>
    /\ appended = [i \in Tasks |-> chunkOf[i].hash]
    /\ fileHash.value = Digest(Concat([i \in Tasks |-> chunkOf[i].hash]))

\* C13 witness: the sources resolved in an order whose concatenation of hashes
\* has another digest than the one returned.
C13_Witness ==
  /\ fileHash.state = "fulfilled"
  /\ Len(order) = n
  /\ Digest(Concat([k \in 1..n |-> chunkOf[order[k]].hash])) # fileHash.value

\* C14 (as claimed): a cancel() called after the outcome has settled changes
\* neither the outcome nor the token's flags, its active interruption handle,
\* the pending delays, the tasks or the progress counter.
C14_CancelAfterSettleIsNoOp ==
  [][(outcome # "pending" /\ Cancel) =>
       UNCHANGED <<outcome, paused, cancelled, gen, fired, timers, pauseResolvers, pc,
                   completed>>]_vars

\* C15: pause() and resume() are idempotent.  In the state a pause() leaves
\* (paused, active handle fired, no registered delay) a second pause() changes
\* nothing of the token, and a resume() on a token that is not paused changes
\* nothing of it: flags, active handle, registered delays, resume-waiters and
\* the tasks waiting on them stay as they are.
C15_TokenState == <<paused, cancelled, gen, fired, timers, pauseResolvers, pc>>

C15_PauseResumeIdempotent ==
  /\ [][(paused /\ gen \in fired /\ timers = {} /\ Pause) => UNCHANGED C15_TokenState]_vars
  /\ [][(~paused /\ Resume) => UNCHANGED C15_TokenState]_vars

\* C15 witness: the token has been resumed once and is not paused, and a task
\* sits in a registered back-off delay that a further resume() must leave alone.
C15_Witness ==
  /\ ~paused
  /\ ~cancelled
  /\ gen >= 1
  /\ \E t \in Tasks : pc[t] = "delay" /\ TimerEntry(t) \in timers

C16_FailureArrived ==
  /\ outcome = "pending"
  /\ \/ wake \notin {"none", "ok"}
     \/ cancelled /\ wake = "ok" /\ mainPc = "race"
     \/ cancelled /\ \E t \in Tasks : pc[t] \in {"loop", "ready", "waitResume", "delay"}

AttemptStarts(t) == pc[t] # "running" /\ pc'[t] = "running"

\* C17: no processor attempt begins with the token cancelled: every step that
\* invokes a processor is taken from a state in which cancel() has not been
\* called.
C17_NoAttemptAfterCancel ==
  [][\A t \in Tasks : AttemptStarts(t) => ~cancelled]_vars

\* C17 witness: cancel() found one task past its first failed attempt and one
\* task that had not yet run any attempt; both were rejected with the
\* cancellation error instead of invoking the processor again.
C17_Witness ==
  /\ cancelled
  /\ \E t \in Tasks : err[t] = Cancelled /\ retry[t] >= 1 /\ succ[t] = 0
  /\ \E t \in Tasks : err[t] = Cancelled /\ retry[t] = 0 /\ succ[t] = 0

\* C18 (as claimed): no processor attempt begins with the token paused.
C18_NoAttemptWhilePaused ==
  [][\A t \in Tasks : AttemptStarts(t) => ~paused]_vars

\* C19 (as claimed): interruption handles are generational. A fired handle
\* stays fired, so an attempt that was running at pause() keeps seeing its
\* handle fired after resume(); and an attempt that starts after resume() with
\* no pause() or cancel() in between receives a handle that is not fired. A
\* resume() on a token that is neither paused nor cancelled changes nothing,
\* so it can be called in any such state: the attempts started after resume()
\* with no pause() or cancel() in between are the attempts started while the
\* token is neither paused nor cancelled.
C19_HandlesGenerational ==
  /\ [][fired \subseteq fired']_vars
  /\ [][\A t \in Tasks : (pc[t] = "running" /\ pc'[t] = "running") => sig'[t] = sig[t]]_vars
  /\ [][\A t \in Tasks : (AttemptStarts(t) /\ ~paused /\ ~cancelled) => sig'[t] \notin fired']_vars

\* C20 (as claimed): once the outcome has settled nothing is mutated: the
\* progress counter keeps its value, onProgress is not invoked and no
\* processor attempt starts.
C20_NoMutationAfterSettle ==
  [][outcome # "pending" =>
       /\ completed' = completed
       /\ progress' = progress
       /\ \A t \in Tasks : ~AttemptStarts(t)]_vars

\* a step in which task t's registered back-off delay is resolved by
\* clearTimers() and not by its timer
DelayForcedToEnd(t) ==
  /\ pc[t] = "delay"
  /\ TimerEntry(t) \in timers
  /\ pc'[t] # "delay"
  /\ TimerEntry(t) \notin timers'

\* C21 (as claimed): a registered back-off delay is cut short only by a
\* pause() or a cancel(); neither resume() nor the cleanup at settlement ends
\* a pending delay before its timer expires.
C21_OnlyPauseOrCancelForcesDelay ==
  [][\A t \in Tasks : DelayForcedToEnd(t) => (Pause \/ Cancel)]_vars

\* C22 (as claimed): from the state in which the outcome settles onwards the
\* token holds no pending delay and no resume-waiter, the in-flight set is
\* empty and no task is waiting on a timer.
C22_TokenCleanAfterSettle ==
  outcome # "pending" =>
    /\ timers = {}
    /\ pauseResolvers = {}
    /\ executing = {}
    /\ \A t \in Tasks : pc[t] # "delay"

\* the loop waits at the limit with the last source unsubmitted, cancel() has
\* not been called and a task of the awaited set has finished (fulfilled)
\* before any task failed
C23_OneFinishedAtLimit ==
  /\ mainPc = "race"
  /\ pc[n] = "idle"
  /\ ~cancelled
  /\ Cardinality(executing) < conc
  /\ \A t \in Tasks : pc[t] # "rejected"

\* C23: admission waits for any one task, not for all: once a single in-flight
\* task has finished while the loop waits at the limit with a source left and
\* no cancel(), that source is admitted, whether or not the other in-flight
\* tasks ever finish (only a cancel() arriving before the loop continues
\* prevents it).
C23_AdmitsAfterAnyOneFinishes ==
  C23_OneFinishedAtLimit ~> (pc[n] # "idle" \/ cancelled)

\* C23 witness: the last source has been admitted after one task finished,
\* while another task admitted before it is still inside its processor.
C23_Witness ==
  /\ ~cancelled
  /\ outcome = "pending"
  /\ pc[n] # "idle"
  /\ \E t \in Tasks : t < n /\ pc[t] = "fulfilled"
  /\ \E t \in Tasks : t < n /\ pc[t] = "running"
  /\ \A t \in Tasks : pc[t] # "rejected"

\* C24: sources are admitted in submission order and at most once: a source is
\* admitted only from the not-yet-admitted state, only when every source
\* before it has been admitted, and an admitted source never returns to the
\* not-yet-admitted state.
C24_AdmissionInSubmissionOrder ==
  [][\A j \in Tasks :
       /\ (pc[j] # "idle") => (pc'[j] # "idle")
       /\ (pc[j] # "source" /\ pc'[j] = "source") => (pc[j] = "idle")
       /\ (pc[j] = "idle" /\ pc'[j] # "idle") => (\A i \in 1..(j - 1) : pc[i] # "idle")]_vars

\* C24 witness: both sources were admitted, and the second one completed and
\* reported progress while the first is still in flight.
C24_Witness ==
  /\ n = 2
  /\ pc[2] = "fulfilled"
  /\ pc[1] \in Unsettled
  /\ Len(progress) = 1

\* C25: chunkFile partitions the chunk indices among its workers (every index
\* lies in exactly one worker's range [start, end)), no position is resolved
\* more than once or through a missing resolver, a resolved position i holds
\* the chunk with index i and bytes [i*chunkSize, min((i+1)*chunkSize, size)),
\* and once the workers are terminated every position was resolved exactly once.
C25_ChunksPartitionedAndResolvedOnce ==
  /\ \A i \in Indices :
       Cardinality({w \in Workers : WorkerStart(w) <= i /\ i < WorkerEnd(w)}) = 1
  /\ ~handlerThrew
  /\ \A i \in Indices :
       /\ resolveCalls[i] <= 1
       /\ resolveCalls[i] = 1 <=> promises[i].state = "fulfilled"
       /\ promises[i].state = "fulfilled" =>
            promises[i].value = [index |-> i,
                           start |-> i * chunkSize,
                           end |-> Min((i + 1) * chunkSize, fileSize)]
  /\ (terminated \/ (inbox = {} /\ \A w \in Workers : workerI[w] >= WorkerEnd(w))) =>
       \A i \in Indices : resolveCalls[i] = 1

\* C25 witness: a 5-byte file in 1-byte chunks on 4 threads: the last worker's
\* range is empty, the last chunk is resolved and the workers are terminated.
C25_Witness ==
  /\ terminated
  /\ TotalChunks = 5
  /\ Cardinality(Workers) = 4
  /\ WorkerStart(3) > WorkerEnd(3)
  /\ promises[4].value = [index |-> 4, start |-> 4, end |-> 5]

\* C26 (as claimed): the handle given to newly started attempts is fired
\* exactly when the token is paused or cancelled.
C26_ActiveHandleFiredIffPausedOrCancelled ==
  (gen \in fired) <=> (paused \/ cancelled)

\* C27 (as claimed): a task waits for resume only while the token is paused.
C27_WaitersOnlyWhilePaused ==
  \A t \in Tasks : pc[t] = "waitResume" => paused

\* C28 (as claimed): the registry of pending delays holds exactly the delays
\* that have not resolved yet.
C28_RegistryIsPendingDelays ==
  timers = {TimerEntry(t) : t \in {u \in Tasks : pc[u] = "delay"}}

====
